---- MODULE Spec2Model ----
(***************************************************************************)
(* Patient Management System API (src/main.py): a FastAPI application that *)
(* keeps patient records in one JSON file, patients.json, read whole by    *)
(* get_data and overwritten whole by save_data.                            *)
(*                                                                         *)
(* Numbers.  height is held in centimetres and weight in kilograms, both   *)
(* integers, so that 1.75 m is 175; bmi is held in hundredths, so that     *)
(* 22.86 is 2286.  The heights drawn below are those for which the float   *)
(* quotient weight/height**2 never lies half way between two hundredths,   *)
(* so that round(.., 2) on the float and on the exact quotient agree.      *)
(*                                                                         *)
(* Dictionaries.  A Python dict with string keys is a function whose       *)
(* DOMAIN is its key set.  The collection (the top-level dict of the file) *)
(* is a sequence of entries [id, rec] in insertion order, which json.load, *)
(* dict and json.dump all preserve.  None is NoneStr in a string field and *)
(* NoneNum in a numeric field.                                             *)
(***************************************************************************)
EXTENDS Integers, Sequences, FiniteSets, TLC

VARIABLES
    file,       \* the content of patients.json
    request,    \* the request being answered
    snapshot,   \* what get_data returned to the handler (<<>> when it never read)
    data,       \* the handler's local `data` when it returned or raised
    response,   \* [status, content] sent back
    io,         \* the handler's accesses to the file, in order
    procs,      \* SpecRace: the two in-flight requests
    saved       \* SpecRace: the requests in the order they called save_data

vars == <<file, request, snapshot, data, response, io, procs, saved>>

-----------------------------------------------------------------------------
(* Bounds of the model *)

\* SpecBmi draws weights 1 .. MaxWeightKg
MaxWeightKg == 130
\* SpecSort draws collections of up to this many records
MaxSortRecords == 3

-----------------------------------------------------------------------------
(* The models: Patient (lines 12-39) and UpdatePatient (lines 42-48) *)

StrFields == {"name", "city", "gender"}
NumFields == {"age", "height", "weight"}
UpdateFields == StrFields \cup NumFields
PatientFields == {"id"} \cup UpdateFields
ComputedFields == {"bmi", "verdict"}

NoneStr == "None"
NoneNum == -1
None(k) == IF k \in StrFields \cup {"id", "verdict"} THEN NoneStr ELSE NoneNum

MaxAge == 120
Genders == {"Male", "Female", "Other"}

\* the constraint of one field of Patient on a value that is not None
FieldOk(k, v) ==
    CASE k = "age"    -> v > 0 /\ v <= MaxAge
      [] k = "gender" -> v \in Genders
      [] k = "height" -> v > 0
      [] k = "weight" -> v > 0
      [] OTHER        -> TRUE

\* Patient(**d) does not raise: every field is there, none is None, each
\* meets its constraint; keys that are no field of the model are ignored
ValidPatient(d) ==
    /\ PatientFields \subseteq DOMAIN d
    /\ \A k \in PatientFields : d[k] # None(k) /\ FieldOk(k, d[k])

\* UpdatePatient(**u) does not raise: every field is Optional
ValidUpdate(u) ==
    /\ DOMAIN u \subseteq UpdateFields
    /\ \A k \in DOMAIN u : u[k] = None(k) \/ FieldOk(k, u[k])

\* the model object Patient(**d): its seven fields
Patient(d) == [k \in PatientFields |-> d[k]]

\* round(weight / height**2, 2), in hundredths: the nearest hundredth, a tie
\* going to the even one
RoundHalfEven(n, d) ==
    LET q == n \div d
        r == n % d
    IN  IF 2 * r > d \/ (2 * r = d /\ q % 2 = 1) THEN q + 1 ELSE q

\* variant: the quotient cut to two decimals instead of rounded
bmi_floor(self) == (self.weight * 1000000) \div (self.height * self.height)
bmi(self) == RoundHalfEven(self.weight * 1000000, self.height * self.height)

UnderweightBelow == 1850
NormalBelow == 2500
OverweightBelow == 3000

\* variant: the comparisons written <= instead of <
verdict_of_inclusive(b) ==
    IF b <= UnderweightBelow THEN "Underweight"
    ELSE IF b <= NormalBelow THEN "Normal weight"
    ELSE IF b <= OverweightBelow THEN "Overweight"
    ELSE "Obese"
verdict_of(b) ==
    IF b < UnderweightBelow THEN "Underweight"
    ELSE IF b < NormalBelow THEN "Normal weight"
    ELSE IF b < OverweightBelow THEN "Overweight"
    ELSE "Obese"
verdict(self) == verdict_of(bmi(self))

\* model_dump(): the fields and the two computed fields
model_dump(self) ==
    [k \in PatientFields \cup ComputedFields |->
        CASE k = "bmi"     -> bmi(self)
          [] k = "verdict" -> verdict(self)
          [] OTHER         -> self[k]]

\* d without the keys in ks
Without(d, ks) == [k \in (DOMAIN d) \ ks |-> d[k]]

\* model_dump(exclude="id"): the str "id" is used through `in`, and "id" is
\* the one field name that is a substring of "id"
\* variant: exclude left out, the id stored in the record
model_dump_keep_id(self) == model_dump(self)
model_dump_exclude_id(self) == Without(model_dump(self), {"id"})

-----------------------------------------------------------------------------
(* The collection: a dict from id to record, in insertion order *)

Keys(coll) == {coll[i].id : i \in DOMAIN coll}
HasKey(coll, id) == id \in Keys(coll)
IndexOf(coll, id) == CHOOSE i \in DOMAIN coll : coll[i].id = id
\* coll[id]
Get(coll, id) == coll[IndexOf(coll, id)].rec
\* coll[id] = rec: a present key keeps its place, a new key goes last
SetItem(coll, id, rec) ==
    IF HasKey(coll, id)
    THEN [coll EXCEPT ![IndexOf(coll, id)] = [id |-> id, rec |-> rec]]
    ELSE Append(coll, [id |-> id, rec |-> rec])
\* del coll[id]
DelItem(coll, id) == SelectSeq(coll, LAMBDA e : e.id # id)
\* coll.values()
Values(coll) == [i \in DOMAIN coll |-> coll[i].rec]

\* json.load(open("patients.json")): the file's dict, keys in file order
get_data == file
\* json.dump(data, f) followed by a later json.load: str, int and float
\* values and the order of the keys all come back as they were written
save_data(d) == d

-----------------------------------------------------------------------------
(* The handlers.  Each is what the handler does with the file content f it *)
(* reads: the response, the value of its local `data` at the end, whether  *)
(* it called save_data, and its file accesses.                             *)

Result(status, content, snap, d, write, accesses) ==
    [status |-> status, content |-> content, snapshot |-> snap, data |-> d,
     write |-> write, io |-> accesses]

NoRead == <<>>
ReadOnly == <<"read">>
ReadWrite == <<"read", "write">>

\* GET /view
view(f) == Result(200, f, f, f, FALSE, ReadOnly)

\* GET /patient/{patient_id}
view_patient(f, patient_id) ==
    IF HasKey(f, patient_id)
    THEN Result(200, Get(f, patient_id), f, f, FALSE, ReadOnly)
    ELSE Result(404, "Patient not found", f, f, FALSE, ReadOnly)

\* x.get(sort_by, 0)
SortKey(x, sort_by) == IF sort_by \in DOMAIN x THEN x[sort_by] ELSE 0

\* sorted(xs, key=.., reverse=..): stable, also when reversed
RECURSIVE InsertSorted(_, _, _, _)
InsertSorted(out, x, sort_by, reverse) ==
    \* x goes before the first element it is strictly ahead of
    IF out = <<>> THEN <<x>>
    ELSE LET kx == SortKey(x, sort_by)
             kh == SortKey(Head(out), sort_by)
             ahead == IF reverse THEN kx > kh ELSE kx < kh
         IN  IF ahead THEN <<x>> \o out
             ELSE <<Head(out)>> \o InsertSorted(Tail(out), x, sort_by, reverse)

RECURSIVE SortedFrom(_, _, _, _)
SortedFrom(out, xs, sort_by, reverse) ==
    IF xs = <<>> THEN out
    ELSE SortedFrom(InsertSorted(out, Head(xs), sort_by, reverse), Tail(xs),
                    sort_by, reverse)

RECURSIVE Reversed(_)
Reversed(xs) == IF xs = <<>> THEN <<>> ELSE Reversed(Tail(xs)) \o <<Head(xs)>>

\* variant: an ascending sort reversed afterwards, which turns ties around
sorted_reverse_after(xs, sort_by, reverse) ==
    IF reverse THEN Reversed(SortedFrom(<<>>, xs, sort_by, FALSE))
    ELSE SortedFrom(<<>>, xs, sort_by, FALSE)
sorted(xs, sort_by, reverse) == SortedFrom(<<>>, xs, sort_by, reverse)

valid_fields == {"height", "weight", "bmi"}
valid_orders == {"asc", "desc"}

\* GET /sort
\* variant: get_data called before the arguments are checked
sort_patient_read_first(f, sort_by, order) ==
    IF sort_by \notin valid_fields \/ order \notin valid_orders
    THEN Result(404, "The input is not valid", f, f, FALSE, ReadOnly)
    ELSE Result(200, sorted(Values(f), sort_by, order = "desc"), f, f, FALSE, ReadOnly)
sort_patient(f, sort_by, order) ==
    IF sort_by \notin valid_fields
    THEN Result(404, "The input is not valid", NoRead, NoRead, FALSE, NoRead)
    ELSE IF order \notin valid_orders
    THEN Result(404, "The input is not valid", NoRead, NoRead, FALSE, NoRead)
    ELSE Result(200, sorted(Values(f), sort_by, order = "desc"), f, f, FALSE, ReadOnly)

\* POST /create
\* variant: the test for an existing id left out
create_patient_no_check(f, patient) ==
    Result(201, "Patient created successfully", f,
           SetItem(f, patient.id, model_dump_exclude_id(patient)), TRUE, ReadWrite)
create_patient(f, patient) ==
    IF HasKey(f, patient.id)
    THEN Result(401, "The patient is already exists", f, f, FALSE, ReadOnly)
    ELSE Result(201, "Patient created successfully", f,
                SetItem(f, patient.id, model_dump_exclude_id(patient)), TRUE, ReadWrite)

\* lines 136-140: the supplied fields laid over the stored record
\* variant: the stored value kept where both dicts have the key
merge_stored_wins(patient_data, updated_data) ==
    [k \in DOMAIN patient_data \cup DOMAIN updated_data |->
        IF k \in DOMAIN patient_data THEN patient_data[k] ELSE updated_data[k]]
merge(patient_data, updated_data) ==
    [k \in DOMAIN patient_data \cup DOMAIN updated_data |->
        IF k \in DOMAIN updated_data THEN updated_data[k] ELSE patient_data[k]]

\* lines 143-145: the id put in, bmi and verdict popped
with_id(patient_data, patient_id) ==
    Without(("id" :> patient_id) @@ patient_data, ComputedFields)

\* PUT /edit/{patient_id}
\* variant: save_data called before Patient(**patient_data)
update_patient_save_first(f, patient_id, patient_update) ==
    IF ~HasKey(f, patient_id)
    THEN Result(404, "Patient not found", f, f, FALSE, ReadOnly)
    ELSE LET patient_data == with_id(merge(Get(f, patient_id), patient_update), patient_id)
             in_place == SetItem(f, patient_id, patient_data)
         IN  IF ~ValidPatient(patient_data)
             THEN Result(500, "Internal Server Error", f, in_place, TRUE, ReadWrite)
             ELSE Result(200, "Patient updated successfully", f,
                         SetItem(in_place, patient_id,
                                 model_dump_exclude_id(Patient(patient_data))),
                         TRUE, ReadWrite)
update_patient(f, patient_id, patient_update) ==
    IF ~HasKey(f, patient_id)
    THEN Result(404, "Patient not found", f, f, FALSE, ReadOnly)
    ELSE LET patient_data == with_id(merge(Get(f, patient_id), patient_update), patient_id)
             \* patient_data is data[patient_id] itself, changed in place
             in_place == SetItem(f, patient_id, patient_data)
         IN  IF ~ValidPatient(patient_data)
             THEN \* Patient(**patient_data) raises: the server answers 500
                  Result(500, "Internal Server Error", f, in_place, FALSE, ReadOnly)
             ELSE Result(200, "Patient updated successfully", f,
                         SetItem(in_place, patient_id,
                                 model_dump_exclude_id(Patient(patient_data))),
                         TRUE, ReadWrite)

\* DELETE /delete/{patient_id}
\* variant: the del left out
delete_patient_keep(f, patient_id) ==
    IF ~HasKey(f, patient_id)
    THEN Result(404, "Patient not found", f, f, FALSE, ReadOnly)
    ELSE Result(200, "Patient deleted successfully", f, f, TRUE, ReadWrite)
delete_patient(f, patient_id) ==
    IF ~HasKey(f, patient_id)
    THEN Result(404, "Patient not found", f, f, FALSE, ReadOnly)
    ELSE Result(200, "Patient deleted successfully", f, DelItem(f, patient_id),
                TRUE, ReadWrite)

\* the request body fails the parameter's model: 422, the handler never runs
Unprocessable == Result(422, "Unprocessable Entity", NoRead, NoRead, FALSE, NoRead)

-----------------------------------------------------------------------------
(* Requests *)

Ids == {"P001", "P002"}
Names == {"Asha", "Ravi"}
Cities == {"Pune"}
Ages == {30}
GendersUsed == {"Male"}
Heights == {175, 200}
Weights == {70, 95}

\* the values a request gives a field
FieldValues(k) ==
    CASE k = "name"   -> Names
      [] k = "city"   -> Cities
      [] k = "age"    -> Ages
      [] k = "gender" -> GendersUsed
      [] k = "height" -> Heights
      [] k = "weight" -> Weights

\* the six fields of a record as a request or a hand-written file holds them
Fields(name, city, age, gender, height, weight) ==
    [name |-> name, city |-> city, age |-> age, gender |-> gender,
     height |-> height, weight |-> weight]

\* bodies of POST /create that Patient accepts
ValidBodies ==
    {("id" :> id) @@ Fields(n, c, a, g, h, w) :
        id \in Ids, n \in Names, c \in Cities, a \in Ages, g \in GendersUsed,
        h \in Heights, w \in Weights}
\* and some it refuses: age 0, age 121, height 0, an unknown gender, no weight
InvalidBodies ==
    {("id" :> "P001") @@ Fields("Asha", "Pune", 0, "Male", 175, 70),
     ("id" :> "P001") @@ Fields("Asha", "Pune", MaxAge + 1, "Male", 175, 70),
     ("id" :> "P002") @@ Fields("Asha", "Pune", 30, "Male", 0, 70),
     ("id" :> "P002") @@ Fields("Asha", "Pune", 30, "Unknown", 175, 70),
     ("id" :> "P001") @@ Fields("Asha", "Pune", 30, "Male", 175, NoneNum)}

\* the dicts over the keys S, each key at one of its values or at None
RECURSIVE Dicts(_)
Dicts(S) ==
    IF S = {} THEN {<<>>}
    ELSE LET k == CHOOSE x \in S : TRUE
         IN  {(k :> v) @@ d : v \in FieldValues(k) \cup {None(k)}, d \in Dicts(S \ {k})}

\* the sets of fields an update request sets: none, one, or one of two pairs
SuppliedSets ==
    {{}} \cup {{k} : k \in UpdateFields} \cup {{"height", "weight"}, {"name", "age"}}

\* bodies of PUT /edit that UpdatePatient accepts: each supplied field set
\* to a value or to null
ValidUpdates == UNION {Dicts(S) : S \in SuppliedSets}
\* and some it refuses: age 121, height 0
InvalidUpdates == {[age |-> MaxAge + 1], [height |-> 0]}

SortBys == valid_fields \cup {"age"}
Orders == valid_orders \cup {"up"}

-----------------------------------------------------------------------------
(* The file the service starts on: empty, or written by hand in the layout *)
(* of six fields per record, where a hand-written record may break a       *)
(* constraint that Patient would have enforced (here age 0).               *)

InitialFiles ==
    {<<>>,
     <<[id |-> "P001", rec |-> Fields("Asha", "Pune", 30, "Male", 175, 70)]>>,
     <<[id |-> "P002", rec |-> Fields("Ravi", "Pune", 0, "Male", 200, 95)],
       [id |-> "P001", rec |-> Fields("Asha", "Pune", 30, "Male", 175, 70)]>>}

NoRequest == [op |-> "none"]
NoResponse == [status |-> 0, content |-> ""]
NoProcs == <<>>

Init ==
    /\ file \in InitialFiles
    /\ request = NoRequest
    /\ snapshot = NoRead
    /\ data = NoRead
    /\ response = NoResponse
    /\ io = NoRead
    /\ procs = NoProcs
    /\ saved = <<>>

\* what the file holds after a handler that read r.snapshot calls
\* save_data(data): open(.., "w") and json.dump overwrite whatever is there
\* variant: a version check, the write dropped when the file has moved on
WriteFile_if_unchanged(current, r) ==
    IF current = r.snapshot THEN save_data(r.data) ELSE current
WriteFile(current, r) == save_data(r.data)

\* one request answered from start to end with no other request in between
Handle(req, r) ==
    /\ request' = req
    /\ file' = IF r.write THEN WriteFile(file, r) ELSE file
    /\ snapshot' = r.snapshot
    /\ data' = r.data
    /\ response' = [status |-> r.status, content |-> r.content]
    /\ io' = r.io
    /\ UNCHANGED <<procs, saved>>

View == Handle([op |-> "view"], view(get_data))

ViewPatient ==
    \E id \in Ids :
        Handle([op |-> "view_patient", id |-> id], view_patient(get_data, id))

SortPatient ==
    \E sort_by \in SortBys, order \in Orders :
        Handle([op |-> "sort_patient", sort_by |-> sort_by, order |-> order],
               sort_patient(get_data, sort_by, order))

CreatePatient ==
    \E body \in ValidBodies \cup InvalidBodies :
        Handle([op |-> "create_patient", id |-> body.id, body |-> body],
               IF ValidPatient(body) THEN create_patient(get_data, Patient(body))
               ELSE Unprocessable)

UpdatePatient ==
    \E id \in Ids, body \in ValidUpdates \cup InvalidUpdates :
        Handle([op |-> "update_patient", id |-> id, body |-> body],
               IF ValidUpdate(body) THEN update_patient(get_data, id, body)
               ELSE Unprocessable)

DeletePatient ==
    \E id \in Ids :
        Handle([op |-> "delete_patient", id |-> id], delete_patient(get_data, id))

Next ==
    \/ View
    \/ ViewPatient
    \/ SortPatient
    \/ CreatePatient
    \/ UpdatePatient
    \/ DeletePatient

Spec == Init /\ [][Next]_vars

-----------------------------------------------------------------------------
(* SpecSort: sort_patient over collections of up to MaxSortRecords records, *)
(* each as create or update stores it (with bmi and verdict) or as written *)
(* by hand (without).                                                      *)

IdAt(i) == "P00" \o ToString(i)
NameAt(i) == "N" \o ToString(i)

EntriesAt(i) ==
    LET six(h, w) == Fields(NameAt(i), "Pune", 30, "Male", h, w)
        stored(h, w) ==
            model_dump_exclude_id(Patient(("id" :> IdAt(i)) @@ six(h, w)))
    IN  {[id |-> IdAt(i), rec |-> six(h, w)] : h \in Heights, w \in Weights}
        \cup {[id |-> IdAt(i), rec |-> stored(h, w)] : h \in Heights, w \in Weights}

RECURSIVE FilesOfLen(_)
FilesOfLen(n) ==
    IF n = 0 THEN {<<>>}
    ELSE {Append(f, e) : f \in FilesOfLen(n - 1), e \in EntriesAt(n)}

InitSort ==
    /\ file \in UNION {FilesOfLen(n) : n \in 0..MaxSortRecords}
    /\ request = NoRequest
    /\ snapshot = NoRead
    /\ data = NoRead
    /\ response = NoResponse
    /\ io = NoRead
    /\ procs = NoProcs
    /\ saved = <<>>

NextSort == SortPatient

SpecSort == InitSort /\ [][NextSort]_vars

-----------------------------------------------------------------------------
(* SpecUpdate: update_patient once over a one-record file, the record and  *)
(* the body ranging over two values of every field, any set of fields       *)
(* supplied.                                                                *)

WideValues(k) ==
    CASE k = "name"   -> {"Asha", "Ravi"}
      [] k = "city"   -> {"Pune", "Agra"}
      [] k = "age"    -> {30, 45}
      [] k = "gender" -> {"Male", "Other"}
      [] k = "height" -> {175, 200}
      [] k = "weight" -> {70, 95}

RECURSIVE WideDicts(_)
WideDicts(S) ==
    IF S = {} THEN {<<>>}
    ELSE LET k == CHOOSE x \in S : TRUE
         IN  {(k :> v) @@ d : v \in WideValues(k) \cup {None(k)},
                              d \in WideDicts(S \ {k})}

\* a record as a hand-written file holds it, the age possibly out of range
WrittenByHand ==
    {Fields(n, c, a, g, h, w) :
        n \in WideValues("name"), c \in WideValues("city"),
        a \in WideValues("age") \cup {0}, g \in WideValues("gender"),
        h \in WideValues("height"), w \in WideValues("weight")}
\* and as create_patient or update_patient stores it
WrittenByApi ==
    {model_dump_exclude_id(Patient(("id" :> "P001") @@ r)) :
        r \in {x \in WrittenByHand : x.age > 0}}

InitUpdate ==
    /\ \E rec \in WrittenByHand \cup WrittenByApi :
           file = <<[id |-> "P001", rec |-> rec]>>
    /\ request = NoRequest
    /\ snapshot = NoRead
    /\ data = NoRead
    /\ response = NoResponse
    /\ io = NoRead
    /\ procs = NoProcs
    /\ saved = <<>>

UpdateOnce ==
    /\ request = NoRequest
    /\ \E id \in Ids, body \in UNION {WideDicts(S) : S \in SUBSET UpdateFields} :
           Handle([op |-> "update_patient", id |-> id, body |-> body],
                  update_patient(get_data, id, body))

NextUpdate == UpdateOnce

SpecUpdate == InitUpdate /\ [][NextUpdate]_vars

-----------------------------------------------------------------------------
(* SpecBmi: the computed fields of Patient over heights and weights *)

BmiHeights == {100, 150, 165, 175, 180, 200}
BmiWeights == 1..MaxWeightKg

InitBmi ==
    /\ file = <<>>
    /\ \E h \in BmiHeights, w \in BmiWeights :
           request = [op |-> "Patient",
                      body |-> ("id" :> "P001") @@ Fields("Asha", "Pune", 30, "Male", h, w)]
    /\ snapshot = NoRead
    /\ data = NoRead
    /\ response = NoResponse
    /\ io = NoRead
    /\ procs = NoProcs
    /\ saved = <<>>

\* Patient(**body).model_dump()
DumpPatient ==
    /\ request.op = "Patient"
    /\ response = NoResponse
    /\ ValidPatient(request.body)
    /\ response' = [status |-> 200, content |-> model_dump(Patient(request.body))]
    /\ UNCHANGED <<file, request, snapshot, data, io, procs, saved>>

NextBmi == DumpPatient

SpecBmi == InitBmi /\ [][NextBmi]_vars

-----------------------------------------------------------------------------
(* SpecRace: two mutating requests served by two worker threads.  A handler *)
(* touches the file at get_data and at save_data only; what it does between *)
(* the two is local to it.                                                  *)

Workers == {1, 2}

RaceRequests ==
    {[op |-> "create_patient", id |-> b.id, body |-> b] :
        b \in {("id" :> "P001") @@ Fields("Asha", "Pune", 30, "Male", 175, 70),
               ("id" :> "P002") @@ Fields("Ravi", "Pune", 30, "Male", 200, 95)}}
    \cup {[op |-> "update_patient", id |-> id, body |-> b] :
        id \in Ids, b \in {[weight |-> 95], [name |-> "Ravi"], [age |-> NoneNum]}}
    \cup {[op |-> "delete_patient", id |-> id] : id \in Ids}

\* the handler of req run on the file content f
Serve(f, req) ==
    CASE req.op = "create_patient" -> create_patient(f, Patient(req.body))
      [] req.op = "update_patient" -> update_patient(f, req.id, req.body)
      [] req.op = "delete_patient" -> delete_patient(f, req.id)

Idle == [pc |-> "idle"]

InitRace ==
    /\ file \in InitialFiles
    /\ request = NoRequest
    /\ snapshot = NoRead
    /\ data = NoRead
    /\ response = NoResponse
    /\ io = NoRead
    /\ procs = [w \in Workers |-> Idle]
    /\ saved = <<>>

\* worker w takes a request and runs its handler up to save_data, or to the
\* end when the handler raises
Load(w) ==
    /\ procs[w].pc = "idle"
    /\ \E req \in RaceRequests :
           LET r == Serve(get_data, req)
           IN  procs' = [procs EXCEPT ![w] =
                   [pc |-> IF r.write THEN "loaded" ELSE "done",
                    req |-> req, res |-> r, saves_before |-> Len(saved)]]
    /\ UNCHANGED <<file, request, snapshot, data, response, io, saved>>

\* worker w calls save_data and answers
Save(w) ==
    /\ procs[w].pc = "loaded"
    /\ file' = WriteFile(file, procs[w].res)
    /\ saved' = Append(saved, w)
    /\ procs' = [procs EXCEPT ![w].pc = "done"]
    /\ UNCHANGED <<request, snapshot, data, response, io>>

NextRace == \E w \in Workers : Load(w) \/ Save(w)

SpecRace == InitRace /\ [][NextRace]_vars

-----------------------------------------------------------------------------
(* What the claims are stated with *)

Mutators == {"create_patient", "update_patient", "delete_patient"}
Readers == {"view", "view_patient", "sort_patient"}
Succeeded == response.status \in {200, 201}

Abs(x) == IF x < 0 THEN -x ELSE x
\* b hundredths is weight / height^2 rounded to two decimals
IsBmiOf(b, h, w) == 2 * Abs(b * h * h - w * 1000000) <= h * h
\* v is the band b hundredths lies in
InBand(v, b) ==
    \/ v = "Underweight" /\ b < 1850
    \/ v = "Normal weight" /\ 1850 <= b /\ b < 2500
    \/ v = "Overweight" /\ 2500 <= b /\ b < 3000
    \/ v = "Obese" /\ 3000 <= b
\* rec carries bmi and verdict derived from its own height and weight
Derived(rec) ==
    /\ ComputedFields \subseteq DOMAIN rec
    /\ IsBmiOf(rec.bmi, rec.height, rec.weight)
    /\ InBand(rec.verdict, rec.bmi)

\* every record but id's is in `after` what it was in `before`
OthersUnchanged(before, after, id) ==
    /\ Keys(after) \ {id} = Keys(before) \ {id}
    /\ \A j \in Keys(before) \ {id} : Get(after, j) = Get(before, j)

\* rec is the stored record `old` with the supplied fields of `body` laid over
MergedFrom(rec, old, body) ==
    \A k \in UpdateFields : rec[k] = IF k \in DOMAIN body THEN body[k] ELSE old[k]

\* `after` is `before` with the change req asks for made in full
Applied(before, after, req) ==
    /\ OthersUnchanged(before, after, req.id)
    /\ CASE req.op = "create_patient" ->
              /\ ~HasKey(before, req.id) /\ HasKey(after, req.id)
              /\ \A k \in UpdateFields : Get(after, req.id)[k] = req.body[k]
         [] req.op = "update_patient" ->
              /\ HasKey(before, req.id) /\ HasKey(after, req.id)
              /\ MergedFrom(Get(after, req.id), Get(before, req.id), req.body)
         [] req.op = "delete_patient" ->
              /\ HasKey(before, req.id) /\ ~HasKey(after, req.id)

-----------------------------------------------------------------------------
\* C1: after an update that succeeds, every field of the record that the
\* request did not supply has its prior stored value, every supplied field
\* has the supplied value, and bmi and verdict of the record are those of the
\* merged height and weight.
C1_UpdateIsPureMerge ==
    (request.op = "update_patient" /\ response.status = 200) =>
        LET rec == Get(file, request.id)
        IN  /\ MergedFrom(rec, Get(snapshot, request.id), request.body)
            /\ Derived(rec)

\* an update of weight alone has succeeded and changed the weight and the bmi
C1_Witness ==
    /\ request.op = "update_patient" /\ response.status = 200
    /\ DOMAIN request.body = {"weight"}
    /\ Get(file, request.id).weight # Get(snapshot, request.id).weight
    /\ "bmi" \in DOMAIN Get(snapshot, request.id)
    /\ Get(file, request.id).bmi # Get(snapshot, request.id).bmi
    /\ Get(file, request.id).name = Get(snapshot, request.id).name

\* C2: create_patient called with an id that is a key of the collection
\* answers 401, does not save, and leaves the collection, the record of that
\* id included, as it was.
C2_CreateRejectsExistingId ==
    (/\ request.op = "create_patient"
     /\ response.status # 422
     /\ HasKey(snapshot, request.id)) =>
        /\ response.status = 401
        /\ io = ReadOnly
        /\ file = snapshot

\* a create was refused for an id whose stored record differs from the body
C2_Witness ==
    /\ request.op = "create_patient" /\ response.status = 401
    /\ HasKey(file, request.id)
    /\ Get(file, request.id).name # request.body.name

\* C3: a create, update or delete request either succeeds with its change
\* made in full and written, or ends in an error with the file as it was.
C3_NoPartialSuccess ==
    [][request'.op \in Mutators =>
          \/ /\ response'.status \in {200, 201}
             /\ Applied(file, file', request')
             /\ io' = ReadWrite
          \/ /\ response'.status \notin {200, 201}
             /\ file' = file]_vars

\* an update failed on its merged record: the handler's copy holds the merge,
\* the file does not
C3_Witness ==
    /\ request.op = "update_patient" /\ response.status = 500
    /\ data # snapshot
    /\ \E k \in DOMAIN request.body : Get(data, request.id)[k] = None(k)
    /\ file = snapshot

\* C4: a delete that succeeds removes the id and nothing else; a delete of an
\* absent id answers 404 and changes nothing; view_patient of an absent id
\* answers 404; and an absent id becomes present only by a create of that id.
C4_DeleteSemantics ==
    [][/\ (request'.op = "delete_patient" /\ HasKey(file, request'.id)) =>
              /\ response'.status = 200
              /\ Applied(file, file', request')
              /\ view_patient(file', request'.id).status = 404
       /\ (request'.op = "delete_patient" /\ ~HasKey(file, request'.id)) =>
              /\ response'.status = 404
              /\ file' = file
       /\ (request'.op = "view_patient" /\ ~HasKey(file, request'.id)) =>
              response'.status = 404
       /\ \A id \in Ids : (~HasKey(file, id) /\ HasKey(file', id)) =>
              (request'.op = "create_patient" /\ request'.id = id)]_vars

\* a delete has succeeded and left the other record in the file
C4_Witness ==
    /\ request.op = "delete_patient" /\ response.status = 200
    /\ HasKey(snapshot, request.id) /\ ~HasKey(file, request.id)
    /\ file # <<>>

C6_SixFieldsOnly ==
    \A i \in DOMAIN file : DOMAIN file[i].rec = UpdateFields

\* C6 as amended: every record of the file holds the six fields and never the
\* id; a record written by create or update holds bmi and verdict as well,
\* derived from its height and weight.
C6_RecordShape ==
    \A i \in DOMAIN file :
        LET rec == file[i].rec
        IN  /\ "id" \notin DOMAIN rec
            /\ UpdateFields \subseteq DOMAIN rec
            /\ DOMAIN rec \subseteq UpdateFields \cup ComputedFields
            /\ (/\ request.op \in {"create_patient", "update_patient"}
                /\ Succeeded
                /\ file[i].id = request.id) => Derived(rec)

\* a create has stored a record with bmi and verdict beside a hand-written one
C6_Witness ==
    /\ request.op = "create_patient" /\ Succeeded
    /\ DOMAIN Get(file, request.id) = UpdateFields \cup ComputedFields
    /\ \E i \in DOMAIN file : DOMAIN file[i].rec = UpdateFields

\* C8 as the specification states it: every create, update and delete reads
\* once and then writes once; every list, get and sort reads once.
C8_OneReadOneWrite ==
    /\ request.op \in Mutators => io = ReadWrite
    /\ request.op \in Readers => io = ReadOnly

\* C8 as amended: a create, update or delete that succeeds reads once and then
\* writes once; one that its handler refuses (401, 404, or the merged record
\* failing validation) reads once and does not write; one whose body is
\* refused before the handler runs touches nothing; list and get read once;
\* sort reads once when its arguments are valid and not at all when not.
C8_StoreAccess ==
    /\ request.op \in Mutators =>
           io = CASE response.status \in {200, 201} -> ReadWrite
                  [] response.status = 422 -> NoRead
                  [] OTHER -> ReadOnly
    /\ request.op \in {"view", "view_patient"} => io = ReadOnly
    /\ request.op = "sort_patient" =>
           io = IF request.sort_by \in valid_fields /\ request.order \in valid_orders
                THEN ReadOnly ELSE NoRead

\* a sort with a bad argument has been refused over a file that holds records
C8_Witness ==
    /\ request.op = "sort_patient" /\ response.status = 404
    /\ io = NoRead /\ file # <<>>

-----------------------------------------------------------------------------
\* out holds the records of inp, each once, ordered by the key sort_by
\* (a missing key counting as 0), ascending or descending, records of equal
\* key in the order they have in inp
IsStableSort(out, inp, sort_by, order) ==
    /\ Len(out) = Len(inp)
    /\ \E pi \in [DOMAIN out -> DOMAIN inp] :
          /\ \A i, j \in DOMAIN out : i # j => pi[i] # pi[j]
          /\ \A i \in DOMAIN out : out[i] = inp[pi[i]]
          /\ \A i, j \in DOMAIN out : i < j =>
                LET ki == IF sort_by \in DOMAIN out[i] THEN out[i][sort_by] ELSE 0
                    kj == IF sort_by \in DOMAIN out[j] THEN out[j][sort_by] ELSE 0
                IN  /\ order = "asc" => ki <= kj
                    /\ order = "desc" => ki >= kj
                    /\ ki = kj => pi[i] < pi[j]

\* C9: with sort_by in {height, weight, bmi} and order in {asc, desc},
\* sort_patient returns every record once, in non-decreasing (asc) or
\* non-increasing (desc) order of the field, a missing field counting as 0 and
\* records of equal key keeping their collection order; with any other
\* sort_by or order it answers 404 and returns no data.
C9_Sort ==
    request.op = "sort_patient" =>
        IF request.sort_by \in {"height", "weight", "bmi"}
           /\ request.order \in {"asc", "desc"}
        THEN /\ response.status = 200
             /\ IsStableSort(response.content, Values(file), request.sort_by,
                             request.order)
        ELSE /\ response.status = 404
             /\ response.content = "The input is not valid"

\* a descending sort by bmi has moved records, two of which lack bmi and tie
C9_Witness ==
    /\ request.op = "sort_patient" /\ response.status = 200
    /\ request.sort_by = "bmi" /\ request.order = "desc"
    /\ Len(response.content) = 3
    /\ response.content # Values(file)
    /\ "bmi" \in DOMAIN response.content[1]
    /\ "bmi" \notin DOMAIN response.content[2]
    /\ "bmi" \notin DOMAIN response.content[3]

\* C10: bmi is weight / height^2 rounded to two decimals, and verdict is the
\* one band of  < 18.5,  [18.5, 25),  [25, 30),  >= 30  that bmi lies in, so
\* that 18.5, 25 and 30 themselves fall in the upper band.
C10_VerdictBanding ==
    (request.op = "Patient" /\ response.status = 200) =>
        LET c == response.content
        IN  /\ IsBmiOf(c.bmi, request.body.height, request.body.weight)
            /\ InBand(c.verdict, c.bmi)
            /\ Cardinality({v \in {"Underweight", "Normal weight", "Overweight",
                                   "Obese"} : InBand(v, c.bmi)}) = 1
            /\ c.bmi = 1850 => c.verdict = "Normal weight"
            /\ c.bmi = 2500 => c.verdict = "Overweight"
            /\ c.bmi = 3000 => c.verdict = "Obese"

\* a bmi of exactly 18.5 has been classified
C10_Witness ==
    /\ request.op = "Patient" /\ response.status = 200
    /\ response.content.bmi = 1850
    /\ response.content.verdict = "Normal weight"

\* C7: when the two requests both read the file before either wrote it and
\* both succeed, the file in the end is what the later writer alone would have
\* left: its change applied to the common snapshot, every other record as in
\* the snapshot, the earlier writer's change gone.
C7_LostUpdate ==
    (/\ \A w \in Workers : procs[w].pc = "done" /\ procs[w].res.write
     /\ \A w \in Workers : procs[w].saves_before = 0
     /\ \A w \in Workers : procs[w].res.status \in {200, 201}) =>
        LET later == procs[saved[2]]
        IN  /\ procs[1].res.snapshot = procs[2].res.snapshot
            /\ Applied(later.res.snapshot, file, later.req)

\* both requests were answered with success, the earlier one created a
\* patient, and the file does not hold that patient
C7_Witness ==
    /\ \A w \in Workers : procs[w].pc = "done" /\ procs[w].res.write
    /\ \A w \in Workers : procs[w].saves_before = 0
    /\ \A w \in Workers : procs[w].res.status \in {200, 201}
    /\ procs[saved[1]].req.op = "create_patient"
    /\ procs[saved[2]].req.id # procs[saved[1]].req.id
    /\ ~HasKey(file, procs[saved[1]].req.id)

====
